---- MODULE Spec2Model ----
(***************************************************************************)
(* Model of the background task subsystem of dochandler:                   *)
(*   src/background_processor.py  BackgroundProcessor (add_task,           *)
(*   is_processing_file, run, stop) on top of queue.PriorityQueue          *)
(*   (heapq over a list) and a ThreadPoolExecutor.                         *)
(*                                                                         *)
(* Threads: callers of add_task, the QThread running run(), the pool       *)
(* worker executing the submitted body, and the caller of stop().          *)
(*                                                                         *)
(* And of its resource lifecycle:                                          *)
(*   src/resource_manager.py  ResourceManager (temp_file, temp_directory,  *)
(*   cleanup_file, cleanup_directory, cleanup_all, manage_com_object),     *)
(*   src/pdf_operations.py  PDFOperations.get_word_instance,               *)
(*   src/doc_handler_app.py  DocHandlerApp.closeEvent.                     *)
(***************************************************************************)
EXTENDS Integers, Sequences, FiniteSets, TLC

\* ---------------------------------------------------------------- bounds
\* number of add_task calls explored
MaxCalls == 3
\* number of add_task calls explored when stop() is never called
MaxCallsRunning == 4
\* number of temp_file / temp_directory scopes explored
MaxScopes == 2
\* the clock advances by one max-age period at a time, at most MaxTicks times
MaxTicks == 2
\* number of automation scopes explored
MaxAcquisitions == 2
\* number of threads that call add_task concurrently
MaxAdders == 2
\* number of add_task calls explored where the threads are required to progress
MaxCallsFair == 2

\* ---------------------------------------------------------------- inputs
Priorities == {1, 5}
NoArg      == "none"          \* add_task called without a positional argument
NoCallback == "None"
\* the call sites explored: first positional argument and callback
CallSites  == {[args |-> "f.pdf", callback |-> "cb"],
               [args |-> NoArg, callback |-> NoCallback]}

\* ---------------------------------------------------------------- state
VARIABLES
    queue,       \* task_queue.queue: the heap list of PriorityQueue (call ids)
    processed,   \* _processed_files
    running,     \* self.running
    shut,        \* executor._shutdown
    calls,       \* every add_task call made so far, with its outcome
    lpc,         \* position of the thread executing run()
    ltask,       \* run()'s local variable `task` (0: not bound yet)
    fut,         \* state of the future of the submitted body
    spc,         \* position of the thread executing stop()
    dispatched,  \* ids in the order run() dequeued them
    started,     \* ids whose body the pool began to execute, in order
    events,      \* task_completed / task_failed emissions, in order
    cbcalls,     \* callback invocations <<id, result>>
    dropped      \* ids logged "Unprocessed task dropped", in order

\* the state of BackgroundProcessor
pvars == <<queue, processed, running, shut, calls, lpc, ltask, fut,
           spc, dispatched, started, events, cbcalls, dropped>>

VARIABLES
    temp_files,        \* ResourceManager._temp_files (paths)
    temp_directories,  \* ResourceManager._temp_directories (paths)
    exists,            \* the paths present on disk
    mtime,             \* os.path.getmtime of each path
    now,               \* time.time()
    scopes,            \* the temp_file / temp_directory scopes entered so far
    removals,          \* os.remove / shutil.rmtree calls made on each path
    rmfailed,          \* paths whose removal from disk was attempted and failed
    temp_files_lock,   \* whether the attribute self._temp_files_lock exists
    com_objects,       \* ResourceManager._com_objects (engine ids)
    resource_timestamps, \* ResourceManager._resource_timestamps (engine id -> time)
    lastop,            \* the step executed last, if a cleanup call or a scope exit
    closed,            \* closeEvent has run
    comlog,            \* the automation scopes run so far, each with its trace
    threads            \* positions of a sweep and a scope exit running concurrently

\* the automation part of the state
comvars == <<temp_files_lock, com_objects, resource_timestamps, comlog>>

\* the state of ResourceManager, of the disk and of the automation scopes
rmvars == <<temp_files, temp_directories, exists, mtime, now, scopes,
            removals, rmfailed, temp_files_lock, com_objects, resource_timestamps,
            lastop, closed, comlog, threads>>

vars == <<queue, processed, running, shut, calls, lpc, ltask, fut,
          spc, dispatched, started, events, cbcalls, dropped,
          temp_files, temp_directories, exists, mtime, now, scopes,
          removals, rmfailed, temp_files_lock, com_objects, resource_timestamps,
          lastop, closed, comlog, threads>>

\* ---------------------------------------------------------------- Task
\* Task(type, func, args, kwargs, callback); one body function per call site,
\* so func is determined by the first positional argument here.
TaskType == "file_conversion"

Task(path, cb) == [type |-> TaskType, args |-> path, callback |-> cb]

\* the result a body returns for the task of call i
ResultOf(i) == <<"result", i>>

\* dataclass __eq__: field-wise equality of two Task objects
TaskEq(t, u) ==
    /\ t.type = u.type
    /\ t.args = u.args
    /\ t.callback = u.callback

\* (priority, task) < (priority, task) as Python compares tuples: the first
\* differing element decides; Task defines no __lt__, so it raises TypeError.
\* cs is the table of calls, i and j index it.
TupleLt(cs, i, j) ==
    IF cs[i].priority # cs[j].priority
    THEN IF cs[i].priority < cs[j].priority THEN "lt" ELSE "ge"
    ELSE IF i = j \/ TaskEq(cs[i].task, cs[j].task) THEN "ge" ELSE "err"

\* ---------------------------------------------------------------- heapq
\* The C implementation (_heapq) that queue.PriorityQueue uses: items are
\* swapped in place, so a comparison that raises leaves the list permuted.
\* Positions are 1-based here: parent of pos is pos \div 2.
Swap(h, a, b) == [h EXCEPT ![a] = h[b], ![b] = h[a]]

RECURSIVE SiftDown(_, _, _, _)
SiftDown(cs, h, startpos, pos) ==
    IF pos <= startpos THEN [heap |-> h, ok |-> TRUE]
    ELSE LET parentpos == pos \div 2
             cmp == TupleLt(cs, h[pos], h[parentpos])
         IN  IF cmp = "err" THEN [heap |-> h, ok |-> FALSE]
             ELSE IF cmp = "ge" THEN [heap |-> h, ok |-> TRUE]
             ELSE SiftDown(cs, Swap(h, pos, parentpos), startpos, parentpos)

RECURSIVE BubbleUp(_, _, _)
\* first loop of siftup: move the smaller child up until a leaf is reached;
\* yields the list and the leaf position, or ok = FALSE when a compare raised
BubbleUp(cs, h, pos) ==
    IF 2 * pos > Len(h) THEN [heap |-> h, pos |-> pos, ok |-> TRUE]
    ELSE LET left == 2 * pos
             cmp  == IF left + 1 <= Len(h)
                     THEN TupleLt(cs, h[left], h[left + 1]) ELSE "lt"
             childpos == IF cmp = "ge" THEN left + 1 ELSE left
         IN  IF cmp = "err" THEN [heap |-> h, pos |-> pos, ok |-> FALSE]
             ELSE BubbleUp(cs, Swap(h, childpos, pos), childpos)

SiftUp(cs, h, pos) ==
    LET b == BubbleUp(cs, h, pos)
    IN  IF b.ok THEN SiftDown(cs, b.heap, pos, b.pos)
        ELSE [heap |-> b.heap, ok |-> FALSE]

\* heappush: append, then sift the new item towards the root
HeapPush(cs, h, x) == SiftDown(cs, Append(h, x), 1, Len(h) + 1)

\* heappop: the last item replaces the root and is sifted; when a compare
\* raises, the former root is returned to nobody
HeapPop(cs, h) ==
    LET n    == Len(h)
        last == h[n]
        rest == SubSeq(h, 1, n - 1)
    IN  IF n = 1 THEN [heap |-> rest, ok |-> TRUE, item |-> last]
        ELSE LET r == SiftUp(cs, [rest EXCEPT ![1] = last], 1)
             IN  [heap |-> r.heap, ok |-> r.ok, item |-> rest[1]]

\* ---------------------------------------------------------------- helpers
TaskOf(i)   == calls[i].task
PathOf(i)   == calls[i].task.args
HasPath(t)  == t.args # NoArg        \* task.args and isinstance(task.args[0], str)
InQueue(i)  == \E k \in 1..Len(queue) : queue[k] = i
Ids         == 1..Len(calls)

\* the signals task_completed(type, result) and task_failed(type, str(error))
Completed(i) == [ev |-> "task_completed", id |-> i, type |-> TaskOf(i).type,
                 payload |-> ResultOf(i)]
Failed(i, msg) == [ev |-> "task_failed", id |-> i, type |-> TaskOf(i).type,
                   payload |-> msg]

\* ---------------------------------------------------------------- Init
\* the paths tempfile can hand out: one per scope
Paths == 1..MaxScopes

\* what lastop holds: the cleanup method called and the path it was called with
\* (for cleanup_all: 2 when the step before was a cleanup_all too, else 1);
\* "other" after any other step
Op(name, p) == [op |-> name, arg |-> p, body |-> "none", caller |-> "none"]
\* after the exit of the scope of path p: how the caller's block ended, and
\* what the with statement handed to the caller
ExitOp(p, body, caller) == [op |-> "exit", arg |-> p, body |-> body, caller |-> caller]

\* self._max_resource_age, self._max_retries, self._retry_delay
max_resource_age == 3600
max_retries == 3
retry_delay == 1

\* a thread that executes cleanup_all or the finally block of a scope:
\* pc: its position; kind, p: the record it is handling; todo: the rest of the
\* list cleanup_all iterates over; time: current_time; err: what it raised
Idle == [pc |-> "idle", kind |-> "none", p |-> 0, todo |-> {}, time |-> 0,
         err |-> "none"]

\* ResourceManager.__init__; nothing allocated, the clock at 0
InitRM ==
    /\ temp_files = {}
    /\ temp_directories = {}
    /\ exists = {}
    /\ mtime = [p \in Paths |-> 0]
    /\ now = 0
    /\ scopes = <<>>
    /\ removals = [p \in Paths |-> 0]
    /\ rmfailed = {}
    /\ temp_files_lock = FALSE        \* __init__ assigns no _temp_files_lock
    /\ com_objects = {}
    /\ resource_timestamps = {}
    /\ lastop = Op("other", 0)
    /\ closed = FALSE
    /\ comlog = <<>>
    /\ threads = [T \in {"sweep", "exit"} |-> Idle]

\* BackgroundProcessor.__init__; the QThread is not started yet.
Init ==
    /\ InitRM
    /\ queue = <<>>
    /\ processed = {}
    /\ running = TRUE
    /\ shut = FALSE
    /\ calls = <<>>
    /\ lpc = "unstarted"
    /\ ltask = 0
    /\ fut = "none"
    /\ spc = "idle"
    /\ dispatched = <<>>
    /\ started = <<>>
    /\ events = <<>>
    /\ cbcalls = {}
    /\ dropped = <<>>

\* ---------------------------------------------------------------- add_task
\* is_processing_file: some queued item has file_path as first argument
is_processing_file(file_path) ==
    \E k \in 1..Len(queue) : PathOf(queue[k]) = file_path

\* line 42: args and isinstance(args[0], str) and os.path.isfile(args[0]);
\* isfile is what os.path.isfile answers at the time of the call
IsFilePath(a, isfile) == a # NoArg /\ isfile

\* line 44
IsDuplicate(a) == a \in processed \/ is_processing_file(a)

\* add_task(priority, task_type, func, a, callback=cb); a file that appears or
\* vanishes between two calls shows as different values of isfile
AddTask(priority, a, cb, isfile) ==
    /\ a = NoArg => ~isfile       \* isfile is only asked about a path
    /\ LET id   == Len(calls) + 1
           call == [priority |-> priority, task |-> Task(a, cb),
                    isfile |-> IsFilePath(a, isfile), outcome |-> "rejected"]
       IN  IF IsFilePath(a, isfile) /\ IsDuplicate(a)
           THEN /\ calls' = Append(calls, call)
                /\ UNCHANGED <<queue, processed>>
           ELSE LET cs == Append(calls, call)
                    r  == HeapPush(cs, queue, id)
                IN  /\ processed' = IF IsFilePath(a, isfile) THEN processed \cup {a}
                                    ELSE processed
                    /\ queue' = r.heap
                    /\ calls' = [cs EXCEPT ![id].outcome =
                                     IF r.ok THEN "accepted" ELSE "raised"]
    /\ UNCHANGED <<running, shut, lpc, ltask, fut, spc, dispatched,
                   started, events, cbcalls, dropped>>

\* ---------------------------------------------------------------- run
\* QThread.start(), called right after construction (integrate_background_processor)
Start ==
    /\ lpc = "unstarted"
    /\ spc = "idle"
    /\ lpc' = "while"
    /\ UNCHANGED <<queue, processed, running, shut, calls, ltask, fut,
                   spc, dispatched, started, events, cbcalls, dropped>>

\* variant of line 64 that does not look at the flag: while True
LoopWhile_IgnoresFlag ==
    /\ lpc = "while"
    /\ lpc' = "get"
    /\ UNCHANGED <<queue, processed, running, shut, calls, ltask, fut,
                   spc, dispatched, started, events, cbcalls, dropped>>

\* while self.running:
LoopWhile ==
    /\ lpc = "while"
    /\ lpc' = IF running THEN "get" ELSE "done"
    /\ UNCHANGED <<queue, processed, running, shut, calls, ltask, fut,
                   spc, dispatched, started, events, cbcalls, dropped>>

\* get(timeout=1) on an empty queue: queue.Empty, continue
LoopGetEmpty ==
    /\ lpc = "get"
    /\ queue = <<>>
    /\ lpc' = "while"
    /\ UNCHANGED <<queue, processed, running, shut, calls, ltask, fut,
                   spc, dispatched, started, events, cbcalls, dropped>>

\* get(timeout=1) on a non-empty queue; a TypeError of heappop is caught by
\* the outer handler, which reports the task bound by an earlier iteration
LoopGet ==
    /\ lpc = "get"
    /\ queue # <<>>
    /\ LET r == HeapPop(calls, queue)
       IN  /\ queue' = r.heap
           /\ IF r.ok
              THEN /\ ltask' = r.item
                   /\ dispatched' = Append(dispatched, r.item)
                   /\ lpc' = "submit"
                   /\ UNCHANGED events
              ELSE /\ events' = IF ltask # 0
                                THEN Append(events, Failed(ltask, "TypeError"))
                                ELSE events
                   /\ lpc' = "while"
                   /\ UNCHANGED <<ltask, dispatched>>
    /\ UNCHANGED <<processed, running, shut, calls, fut, spc, started,
                   cbcalls, dropped>>

\* variant of lines 69-71 that submits the body and does not wait for its result
LoopSubmit_NoWait ==
    /\ lpc = "submit"
    /\ IF shut
       THEN /\ events' = Append(events, Failed(ltask, "RuntimeError"))
            /\ UNCHANGED <<fut, started>>
       ELSE /\ fut' = "running"
            /\ started' = Append(started, ltask)
            /\ UNCHANGED events
    /\ lpc' = "while"
    /\ UNCHANGED <<queue, processed, running, shut, calls, ltask, spc,
                   dispatched, cbcalls, dropped>>

\* executor.submit: RuntimeError once the executor is shut down, caught by the
\* outer handler
LoopSubmit ==
    /\ lpc = "submit"
    /\ IF shut
       THEN /\ events' = Append(events, Failed(ltask, "RuntimeError"))
            /\ lpc' = "while"
            /\ UNCHANGED <<fut, started>>
       ELSE /\ fut' = "running"
            /\ started' = Append(started, ltask)
            /\ lpc' = "result"
            /\ UNCHANGED events
    /\ UNCHANGED <<queue, processed, running, shut, calls, ltask, spc,
                   dispatched, cbcalls, dropped>>

\* the pool worker finishes task.func(*args, **kwargs)
BodyReturn ==
    /\ fut = "running"
    /\ fut' = "ok"
    /\ UNCHANGED <<queue, processed, running, shut, calls, lpc, ltask,
                   spc, dispatched, started, events, cbcalls, dropped>>

BodyRaise ==
    /\ fut = "running"
    /\ fut' = "err"
    /\ UNCHANGED <<queue, processed, running, shut, calls, lpc, ltask,
                   spc, dispatched, started, events, cbcalls, dropped>>

\* variant of the inner except block that keeps the path tracked
FailureHandler_KeepsTracking(msg) ==
    /\ events' = Append(events, Failed(ltask, msg))
    /\ UNCHANGED processed

\* the inner except block: task_failed, then discard of the path
FailureHandler(msg) ==
    /\ events' = Append(events, Failed(ltask, msg))
    /\ processed' = IF HasPath(TaskOf(ltask)) THEN processed \ {PathOf(ltask)}
                    ELSE processed

\* future.result() returned: callback, then task_completed
LoopSuccess ==
    /\ lpc = "result"
    /\ fut = "ok"
    /\ IF TaskOf(ltask).callback # NoCallback
       THEN /\ cbcalls' = cbcalls \cup {<<ltask, ResultOf(ltask)>>}
            /\ \/ /\ events' = Append(events, Completed(ltask))
                  /\ UNCHANGED processed
               \/ FailureHandler("callback error")
       ELSE /\ events' = Append(events, Completed(ltask))
            /\ UNCHANGED <<cbcalls, processed>>
    /\ fut' = "none"
    /\ lpc' = "while"
    /\ UNCHANGED <<queue, running, shut, calls, ltask, spc, dispatched,
                   started, dropped>>

\* future.result() raised the body's exception
LoopFailure ==
    /\ lpc = "result"
    /\ fut = "err"
    /\ FailureHandler("body error")
    /\ fut' = "none"
    /\ lpc' = "while"
    /\ UNCHANGED <<queue, running, shut, calls, ltask, spc, dispatched,
                   started, cbcalls, dropped>>

\* ---------------------------------------------------------------- stop
\* self.running = False
StopFlag ==
    /\ spc = "idle"
    /\ running' = FALSE
    /\ spc' = "flagged"
    /\ UNCHANGED <<queue, processed, shut, calls, lpc, ltask, fut, dispatched,
                   started, events, cbcalls, dropped>>

\* executor.shutdown(wait=True) marks the executor as shut down
StopShutdown ==
    /\ spc = "flagged"
    /\ shut' = TRUE
    /\ spc' = "shutdown"
    /\ UNCHANGED <<queue, processed, running, calls, lpc, ltask, fut,
                   dispatched, started, events, cbcalls, dropped>>

\* shutdown(wait=True) returns once the worker has finished its body
StopPoolJoined ==
    /\ spc = "shutdown"
    /\ fut # "running"
    /\ spc' = "drain"
    /\ UNCHANGED <<queue, processed, running, shut, calls, lpc, ltask,
                   fut, dispatched, started, events, cbcalls, dropped>>

\* one iteration of the drain loop; the bare except swallows a TypeError of
\* heappop, and the item heappop had taken is not logged
StopDrain ==
    /\ spc = "drain"
    /\ IF queue = <<>>
       THEN /\ spc' = "clear"
            /\ UNCHANGED <<queue, dropped>>
       ELSE LET r == HeapPop(calls, queue)
            IN  /\ queue' = r.heap
                /\ dropped' = IF r.ok THEN Append(dropped, r.item) ELSE dropped
                /\ UNCHANGED spc
    /\ UNCHANGED <<processed, running, shut, calls, lpc, ltask, fut,
                   dispatched, started, events, cbcalls>>

\* self._processed_files.clear()
StopClear ==
    /\ spc = "clear"
    /\ processed' = {}
    /\ spc' = "join"
    /\ UNCHANGED <<queue, running, shut, calls, lpc, ltask, fut,
                   dispatched, started, events, cbcalls, dropped>>

\* variant of stop() that returns without waiting for run()
StopJoin_NoWait ==
    /\ spc = "join"
    /\ spc' = "returned"
    /\ UNCHANGED <<queue, processed, running, shut, calls, lpc, ltask,
                   fut, dispatched, started, events, cbcalls, dropped>>

\* self.wait(): returns when run() has returned (at once if never started)
StopJoin ==
    /\ spc = "join"
    /\ lpc \in {"unstarted", "done"}
    /\ spc' = "returned"
    /\ UNCHANGED <<queue, processed, running, shut, calls, lpc, ltask,
                   fut, dispatched, started, events, cbcalls, dropped>>

\* ---------------------------------------------------------------- Next
Next ==
    \/ \E pr \in Priorities, c \in CallSites, isfile \in BOOLEAN :
          Len(calls) < MaxCalls /\ AddTask(pr, c.args, c.callback, isfile)
          /\ UNCHANGED rmvars
    \/ Start /\ UNCHANGED rmvars
    \/ LoopWhile /\ UNCHANGED rmvars
    \/ LoopGetEmpty /\ UNCHANGED rmvars
    \/ LoopGet /\ UNCHANGED rmvars
    \/ LoopSubmit /\ UNCHANGED rmvars
    \/ BodyReturn /\ UNCHANGED rmvars
    \/ BodyRaise /\ UNCHANGED rmvars
    \/ LoopSuccess /\ UNCHANGED rmvars
    \/ LoopFailure /\ UNCHANGED rmvars
    \/ StopFlag /\ UNCHANGED rmvars
    \/ StopShutdown /\ UNCHANGED rmvars
    \/ StopPoolJoined /\ UNCHANGED rmvars
    \/ StopDrain /\ UNCHANGED rmvars
    \/ StopClear /\ UNCHANGED rmvars
    \/ StopJoin /\ UNCHANGED rmvars

Spec == Init /\ [][Next]_vars

\* the processor is started and never stopped
NextRunning ==
    \/ \E pr \in Priorities, c \in CallSites, isfile \in BOOLEAN :
          Len(calls) < MaxCallsRunning /\ AddTask(pr, c.args, c.callback, isfile)
          /\ UNCHANGED rmvars
    \/ Start /\ UNCHANGED rmvars
    \/ LoopWhile /\ UNCHANGED rmvars
    \/ LoopGetEmpty /\ UNCHANGED rmvars
    \/ LoopGet /\ UNCHANGED rmvars
    \/ LoopSubmit /\ UNCHANGED rmvars
    \/ BodyReturn /\ UNCHANGED rmvars
    \/ BodyRaise /\ UNCHANGED rmvars
    \/ LoopSuccess /\ UNCHANGED rmvars
    \/ LoopFailure /\ UNCHANGED rmvars

SpecRunning == Init /\ [][NextRunning]_vars

\* every add_task call precedes the call of stop()
NextStopLast ==
    \/ \E pr \in Priorities, c \in CallSites, isfile \in BOOLEAN :
          /\ Len(calls) < MaxCalls
          /\ spc = "idle"
          /\ AddTask(pr, c.args, c.callback, isfile)
          /\ UNCHANGED rmvars
    \/ Start /\ UNCHANGED rmvars
    \/ LoopWhile /\ UNCHANGED rmvars
    \/ LoopGetEmpty /\ UNCHANGED rmvars
    \/ LoopGet /\ UNCHANGED rmvars
    \/ LoopSubmit /\ UNCHANGED rmvars
    \/ BodyReturn /\ UNCHANGED rmvars
    \/ BodyRaise /\ UNCHANGED rmvars
    \/ LoopSuccess /\ UNCHANGED rmvars
    \/ LoopFailure /\ UNCHANGED rmvars
    \/ StopFlag /\ UNCHANGED rmvars
    \/ StopShutdown /\ UNCHANGED rmvars
    \/ StopPoolJoined /\ UNCHANGED rmvars
    \/ StopDrain /\ UNCHANGED rmvars
    \/ StopClear /\ UNCHANGED rmvars
    \/ StopJoin /\ UNCHANGED rmvars

SpecStopLast == Init /\ [][NextStopLast]_vars

\* the threads keep running: the QThread executes run() step by step (get
\* returns or times out after 1 s), every submitted body terminates, and the
\* caller of stop() goes on through stop() once it has called it
Progress ==
    /\ WF_vars(LoopWhile /\ UNCHANGED rmvars)
    /\ WF_vars(LoopGetEmpty /\ UNCHANGED rmvars)
    /\ WF_vars(LoopGet /\ UNCHANGED rmvars)
    /\ WF_vars(LoopSubmit /\ UNCHANGED rmvars)
    /\ WF_vars((BodyReturn \/ BodyRaise) /\ UNCHANGED rmvars)
    /\ WF_vars(LoopSuccess /\ UNCHANGED rmvars)
    /\ WF_vars(LoopFailure /\ UNCHANGED rmvars)
    /\ WF_vars(StopShutdown /\ UNCHANGED rmvars)
    /\ WF_vars(StopPoolJoined /\ UNCHANGED rmvars)
    /\ WF_vars(StopDrain /\ UNCHANGED rmvars)
    /\ WF_vars(StopClear /\ UNCHANGED rmvars)
    /\ WF_vars(StopJoin /\ UNCHANGED rmvars)

\* every add_task call precedes the call of stop(), and the threads progress
NextStopFair ==
    \/ \E pr \in Priorities, c \in CallSites, isfile \in BOOLEAN :
          /\ Len(calls) < MaxCallsFair
          /\ spc = "idle"
          /\ AddTask(pr, c.args, c.callback, isfile)
          /\ UNCHANGED rmvars
    \/ Start /\ UNCHANGED rmvars
    \/ LoopWhile /\ UNCHANGED rmvars
    \/ LoopGetEmpty /\ UNCHANGED rmvars
    \/ LoopGet /\ UNCHANGED rmvars
    \/ LoopSubmit /\ UNCHANGED rmvars
    \/ BodyReturn /\ UNCHANGED rmvars
    \/ BodyRaise /\ UNCHANGED rmvars
    \/ LoopSuccess /\ UNCHANGED rmvars
    \/ LoopFailure /\ UNCHANGED rmvars
    \/ StopFlag /\ UNCHANGED rmvars
    \/ StopShutdown /\ UNCHANGED rmvars
    \/ StopPoolJoined /\ UNCHANGED rmvars
    \/ StopDrain /\ UNCHANGED rmvars
    \/ StopClear /\ UNCHANGED rmvars
    \/ StopJoin /\ UNCHANGED rmvars

FairSpecStop == Init /\ [][NextStopFair]_vars /\ Progress

\* ---------------------------------------------------------------- concurrent add_task
\* add_task as several threads execute it: the statements of one call interleave
\* with those of the others. calls[i].outcome holds the position of a call that
\* has not returned: "line47" (the test of line 44 was false), "line50".

\* lines 42-46 of a new call: the isfile test and the membership check
AddTaskCheck(priority, a, cb, isfile) ==
    /\ a = NoArg => ~isfile
    /\ LET at == IF ~IsFilePath(a, isfile) THEN "line50"
                 ELSE IF IsDuplicate(a) THEN "rejected"
                 ELSE "line47"
       IN  calls' = Append(calls, [priority |-> priority, task |-> Task(a, cb),
                                   isfile |-> IsFilePath(a, isfile), outcome |-> at])
    /\ UNCHANGED <<queue, processed, running, shut, lpc, ltask, fut, spc,
                   dispatched, started, events, cbcalls, dropped>>

\* line 47: self._processed_files.add(file_path)
AddTaskTrack(i) ==
    /\ i \in Ids
    /\ calls[i].outcome = "line47"
    /\ processed' = processed \cup {PathOf(i)}
    /\ calls' = [calls EXCEPT ![i].outcome = "line50"]
    /\ UNCHANGED <<queue, running, shut, lpc, ltask, fut, spc,
                   dispatched, started, events, cbcalls, dropped>>

\* lines 49-50: self.task_queue.put((priority, task))
AddTaskPut(i) ==
    /\ i \in Ids
    /\ calls[i].outcome = "line50"
    /\ LET r == HeapPush(calls, queue, i)
       IN  /\ queue' = r.heap
           /\ calls' = [calls EXCEPT ![i].outcome =
                            IF r.ok THEN "accepted" ELSE "raised"]
    /\ UNCHANGED <<processed, running, shut, lpc, ltask, fut, spc,
                   dispatched, started, events, cbcalls, dropped>>

\* MaxAdders threads, each calling add_task once; run() is not started
NextAdders ==
    \/ \E pr \in Priorities, c \in CallSites, isfile \in BOOLEAN :
          /\ Len(calls) < MaxAdders
          /\ AddTaskCheck(pr, c.args, c.callback, isfile)
          /\ UNCHANGED rmvars
    \/ \E i \in 1..MaxAdders : AddTaskTrack(i) /\ UNCHANGED rmvars
    \/ \E i \in 1..MaxAdders : AddTaskPut(i) /\ UNCHANGED rmvars

SpecAdders == Init /\ [][NextAdders]_vars

\* ================================================================ ResourceManager
\* ---------------------------------------------------------------- ledger
\* the part of the state the cleanup methods read and write
Ledger == [files |-> temp_files, dirs |-> temp_directories, exists |-> exists,
           removals |-> removals, rmfailed |-> rmfailed]

\* cleanup_file(file_path); fail: os.remove raises, which is logged and
\* swallowed. Without the membership test of line 116 (variant).
cleanup_file_Unguarded(L, file_path, fail) ==
    [L EXCEPT !.files = @ \ {file_path},
              !.exists = IF file_path \in L.exists /\ ~fail
                         THEN @ \ {file_path} ELSE @,
              !.removals[file_path] = IF file_path \in L.exists THEN @ + 1 ELSE @,
              !.rmfailed = IF file_path \in L.exists /\ fail
                           THEN @ \cup {file_path} ELSE @]

\* variant of cleanup_file that discards the path only when os.remove succeeded
cleanup_file_KeepsOnFailure(L, file_path, fail) ==
    IF file_path \in L.files
    THEN [L EXCEPT !.files = IF file_path \in L.exists /\ fail
                             THEN @ ELSE @ \ {file_path},
                   !.exists = IF file_path \in L.exists /\ ~fail
                              THEN @ \ {file_path} ELSE @,
                   !.removals[file_path] = IF file_path \in L.exists
                                           THEN @ + 1 ELSE @,
                   !.rmfailed = IF file_path \in L.exists /\ fail
                                THEN @ \cup {file_path} ELSE @]
    ELSE L

\* cleanup_file(file_path): only a tracked path is removed (if it exists on
\* disk) and discarded from _temp_files
cleanup_file(L, file_path, fail) ==
    IF file_path \in L.files
    THEN [L EXCEPT !.files = @ \ {file_path},
                   !.exists = IF file_path \in L.exists /\ ~fail
                              THEN @ \ {file_path} ELSE @,
                   !.removals[file_path] = IF file_path \in L.exists
                                           THEN @ + 1 ELSE @,
                   !.rmfailed = IF file_path \in L.exists /\ fail
                                THEN @ \cup {file_path} ELSE @]
    ELSE L

\* cleanup_directory(directory): shutil.rmtree(ignore_errors=True) is called
\* whether or not the directory exists; fail: rmtree leaves it on disk
cleanup_directory(L, directory, fail) ==
    IF directory \in L.dirs
    THEN [L EXCEPT !.dirs = @ \ {directory},
                   !.exists = IF ~fail THEN @ \ {directory} ELSE @,
                   !.removals[directory] = @ + 1,
                   !.rmfailed = IF directory \in L.exists /\ fail
                                THEN @ \cup {directory} ELSE @]
    ELSE L

\* lines 133 and 136: os.path.exists(p) and current_time - getmtime(p) > max age
IsAged(L, p, current_time) ==
    p \in L.exists /\ current_time - mtime[p] > max_resource_age

\* one of the two loops of cleanup_all, over the paths in todo
RECURSIVE cleanup_each(_, _, _, _, _)
cleanup_each(L, todo, kind, current_time, fails) ==
    IF todo = {} THEN L
    ELSE LET p  == CHOOSE x \in todo : \A y \in todo : x <= y
             L1 == IF ~IsAged(L, p, current_time) THEN L
                   ELSE IF kind = "dir" THEN cleanup_directory(L, p, p \in fails)
                   ELSE cleanup_file(L, p, p \in fails)
         IN  cleanup_each(L1, todo \ {p}, kind, current_time, fails)

\* cleanup_all(): the aged directories, then the aged files; the automation
\* handles and their timestamps are not visited
cleanup_all(L, current_time, fails) ==
    LET L1 == cleanup_each(L, L.dirs, "dir", current_time, fails)
    IN  cleanup_each(L1, L1.files, "file", current_time, fails)

\* the refused removals of ledger L that left a warning in the log: line 121
\* logs what os.remove raised; shutil.rmtree(ignore_errors=True) raises
\* nothing, so line 110 is not reached for a directory that could not be removed
WarningsLogged(L) == {p \in L.rmfailed : p \in 1..Len(scopes) /\ scopes[p].kind = "file"}

\* the ledger L becomes the state
SetLedger(L) ==
    /\ temp_files' = L.files
    /\ temp_directories' = L.dirs
    /\ exists' = L.exists
    /\ removals' = L.removals
    /\ rmfailed' = L.rmfailed

\* ---------------------------------------------------------------- scopes
\* a scope of temp_file / temp_directory; its path is its index in scopes.
\* created: the time of allocation
NewScope(kind) == [kind |-> kind, state |-> "open", created |-> now]

IsOpen(p, kind) ==
    /\ p \in 1..Len(scopes)
    /\ scopes[p].state = "open"
    /\ scopes[p].kind = kind

\* the with statement is left: the body returned or raised, and the generator's
\* finally block has run; the exception of the body is re-raised to the caller
Exited(p, raised) ==
    /\ scopes' = [scopes EXCEPT ![p].state = "exited"]
    /\ lastop' = ExitOp(p, IF raised THEN "raise" ELSE "return",
                           IF raised THEN "exception" ELSE "normal")

\* temp_file(): NamedTemporaryFile(delete=False), close, add to _temp_files, yield
TempFileEnter ==
    /\ ~closed
    /\ Len(scopes) < MaxScopes
    /\ LET p == Len(scopes) + 1
       IN  /\ scopes' = Append(scopes, NewScope("file"))
           /\ exists' = exists \cup {p}
           /\ mtime' = [mtime EXCEPT ![p] = now]
           /\ temp_files' = temp_files \cup {p}
           /\ lastop' = Op("other", 0)
    /\ UNCHANGED <<temp_directories, now, removals, rmfailed, closed, comvars>>

\* variant of the exit of temp_file that leaves the file to the sweep
TempFileExit_NoCleanup(p, raised, fail) ==
    /\ ~closed
    /\ IsOpen(p, "file")
    /\ Exited(p, raised)
    /\ UNCHANGED <<temp_files, temp_directories, exists, removals, rmfailed,
                   mtime, now, closed, comvars>>

\* temp_file(): the finally block, cleanup_file(temp_file.name)
TempFileExit(p, raised, fail) ==
    /\ ~closed
    /\ IsOpen(p, "file")
    /\ SetLedger(cleanup_file(Ledger, p, fail))
    /\ Exited(p, raised)
    /\ UNCHANGED <<mtime, now, closed, comvars>>

\* temp_directory(): mkdtemp, add to _temp_directories, yield
TempDirectoryEnter ==
    /\ ~closed
    /\ Len(scopes) < MaxScopes
    /\ LET p == Len(scopes) + 1
       IN  /\ scopes' = Append(scopes, NewScope("dir"))
           /\ exists' = exists \cup {p}
           /\ mtime' = [mtime EXCEPT ![p] = now]
           /\ temp_directories' = temp_directories \cup {p}
           /\ lastop' = Op("other", 0)
    /\ UNCHANGED <<temp_files, now, removals, rmfailed, closed,
                   comvars>>

\* temp_directory(): the finally block, cleanup_directory(temp_dir)
TempDirectoryExit(p, raised, fail) ==
    /\ ~closed
    /\ IsOpen(p, "dir")
    /\ SetLedger(cleanup_directory(Ledger, p, fail))
    /\ Exited(p, raised)
    /\ UNCHANGED <<mtime, now, closed, comvars>>

\* the caller's block writes to the path it was handed (for a directory:
\* creates an entry in it), which sets the modification time
ScopeBodyWrite(p) ==
    /\ ~closed
    /\ p \in 1..Len(scopes)
    /\ scopes[p].state = "open"
    /\ p \notin exists \/ mtime[p] # now
    /\ scopes[p].kind = "dir" => p \in exists
    /\ exists' = exists \cup {p}
    /\ mtime' = [mtime EXCEPT ![p] = now]
    /\ lastop' = Op("other", 0)
    /\ UNCHANGED <<temp_files, temp_directories, now, scopes, removals,
                   rmfailed, closed, comvars>>

\* the caller's block moves the path it was handed to its destination
ScopeBodyMove(p) ==
    /\ ~closed
    /\ p \in 1..Len(scopes)
    /\ scopes[p].state = "open"
    /\ p \in exists
    /\ exists' = exists \ {p}
    /\ lastop' = Op("other", 0)
    /\ UNCHANGED <<temp_files, temp_directories, mtime, now, scopes,
                   removals, rmfailed, closed, comvars>>

\* ---------------------------------------------------------------- cleanup calls
\* a direct call of cleanup_file(p)
CleanupFileCall(p, fail) ==
    /\ ~closed
    /\ p \in 1..Len(scopes)
    /\ SetLedger(cleanup_file(Ledger, p, fail))
    /\ lastop' = Op("cleanup_file", p)
    /\ UNCHANGED <<mtime, now, scopes, closed, comvars>>

\* a direct call of cleanup_directory(p)
CleanupDirectoryCall(p, fail) ==
    /\ ~closed
    /\ p \in 1..Len(scopes)
    /\ SetLedger(cleanup_directory(Ledger, p, fail))
    /\ lastop' = Op("cleanup_directory", p)
    /\ UNCHANGED <<mtime, now, scopes, closed, comvars>>

\* cleanup_all(), as the timer of schedule_cleanup calls it; fails: the paths
\* whose removal fails
CleanupAllCall(fails) ==
    /\ ~closed
    /\ SetLedger(cleanup_all(Ledger, now, fails))
    /\ lastop' = Op("cleanup_all", IF lastop.op = "cleanup_all" THEN 2 ELSE 1)
    /\ UNCHANGED <<mtime, now, scopes, closed, comvars>>

\* DocHandlerApp.closeEvent: save_config, then cleanup_all(); an exception of
\* save_config skips the cleanup (logged); the window closes
closeEvent(saveRaises, fails) ==
    /\ ~closed
    /\ IF saveRaises THEN SetLedger(Ledger)
       ELSE SetLedger(cleanup_all(Ledger, now, fails))
    /\ lastop' = Op("closeEvent", 0)
    /\ closed' = TRUE
    /\ UNCHANGED <<mtime, now, scopes, comvars>>

\* time.time() advances by one max-age period
Tick ==
    /\ ~closed
    /\ now < MaxTicks * max_resource_age
    /\ now' = now + max_resource_age
    /\ lastop' = Op("other", 0)
    /\ UNCHANGED <<temp_files, temp_directories, exists, mtime, scopes,
                   removals, rmfailed, closed, comvars>>

\* ---------------------------------------------------------------- NextRM
\* the operations of the resource manager, with the processor left alone
NextRM ==
    \/ TempFileEnter /\ UNCHANGED <<pvars, threads>>
    \/ TempDirectoryEnter /\ UNCHANGED <<pvars, threads>>
    \/ \E p \in Paths, raised \in BOOLEAN, fail \in BOOLEAN :
          TempFileExit(p, raised, fail) /\ UNCHANGED <<pvars, threads>>
    \/ \E p \in Paths, raised \in BOOLEAN, fail \in BOOLEAN :
          TempDirectoryExit(p, raised, fail) /\ UNCHANGED <<pvars, threads>>
    \/ \E p \in Paths : ScopeBodyWrite(p) /\ UNCHANGED <<pvars, threads>>
    \/ \E p \in Paths : ScopeBodyMove(p) /\ UNCHANGED <<pvars, threads>>
    \/ \E p \in Paths, fail \in BOOLEAN :
          CleanupFileCall(p, fail) /\ UNCHANGED <<pvars, threads>>
    \/ \E p \in Paths, fail \in BOOLEAN :
          CleanupDirectoryCall(p, fail) /\ UNCHANGED <<pvars, threads>>
    \/ \E fails \in SUBSET Paths : CleanupAllCall(fails) /\ UNCHANGED <<pvars, threads>>
    \/ \E saveRaises \in BOOLEAN, fails \in SUBSET Paths :
          closeEvent(saveRaises, fails) /\ UNCHANGED <<pvars, threads>>
    \/ Tick /\ UNCHANGED <<pvars, threads>>

SpecRM == Init /\ [][NextRM]_vars

\* ---------------------------------------------------------------- sweep and exit, concurrently
\* cleanup_all and the finally block of a scope as two threads execute them,
\* statement by statement. Removals are not refused here.
SetThread(T, t) == threads' = [threads EXCEPT ![T] = t]
At(T, pc) == threads[T].pc = pc

\* the thread returns from cleanup_file / cleanup_directory: the sweep goes on
\* with its loop; the scope exit has run its finally block
CleanupReturn(T) ==
    IF T = "sweep"
    THEN /\ SetThread(T, [threads[T] EXCEPT !.pc = "loop"])
         /\ UNCHANGED scopes
    ELSE /\ SetThread(T, Idle)
         /\ scopes' = [scopes EXCEPT ![threads[T].p].state = "exited"]

\* the finally block of temp_file / temp_directory begins (lines 72, 83)
ExitBegin(p) ==
    /\ At("exit", "idle")
    /\ p \in 1..Len(scopes)
    /\ scopes[p].state = "open"
    /\ SetThread("exit", [Idle EXCEPT !.pc = "membership", !.p = p,
                                      !.kind = scopes[p].kind])
    /\ UNCHANGED <<temp_files, temp_directories, exists, mtime, now, scopes,
                   removals, rmfailed, lastop, closed, comvars>>

\* lines 106, 116: if path in self._temp_directories / self._temp_files
CleanupMembership(T) ==
    /\ At(T, "membership")
    /\ LET t == threads[T]
       IN  IF t.p \in (IF t.kind = "dir" THEN temp_directories ELSE temp_files)
           THEN /\ SetThread(T, [t EXCEPT !.pc = IF t.kind = "dir" THEN "rmtree"
                                                  ELSE "exists"])
                /\ UNCHANGED scopes
           ELSE CleanupReturn(T)
    /\ UNCHANGED <<temp_files, temp_directories, exists, mtime, now,
                   removals, rmfailed, lastop, closed, comvars>>

\* line 118: if os.path.exists(file_path)
CleanupExists(T) ==
    /\ At(T, "exists")
    /\ SetThread(T, [threads[T] EXCEPT !.pc = IF threads[T].p \in exists
                                               THEN "remove" ELSE "discard"])
    /\ UNCHANGED <<temp_files, temp_directories, exists, mtime, now, scopes,
                   removals, rmfailed, lastop, closed, comvars>>

\* lines 119-121: os.remove(file_path); FileNotFoundError when the file has
\* gone since line 118, logged by the except block
CleanupRemove(T) ==
    /\ At(T, "remove")
    /\ LET q == threads[T].p
       IN  /\ removals' = [removals EXCEPT ![q] = @ + 1]
           /\ IF q \in exists
              THEN exists' = exists \ {q} /\ UNCHANGED rmfailed
              ELSE rmfailed' = rmfailed \cup {q} /\ UNCHANGED exists
    /\ SetThread(T, [threads[T] EXCEPT !.pc = "discard"])
    /\ UNCHANGED <<temp_files, temp_directories, mtime, now, scopes,
                   lastop, closed, comvars>>

\* line 108: shutil.rmtree(directory, ignore_errors=True)
CleanupRmtree(T) ==
    /\ At(T, "rmtree")
    /\ LET q == threads[T].p
       IN  /\ removals' = [removals EXCEPT ![q] = @ + 1]
           /\ exists' = exists \ {q}
    /\ SetThread(T, [threads[T] EXCEPT !.pc = "discard"])
    /\ UNCHANGED <<temp_files, temp_directories, mtime, now, scopes,
                   rmfailed, lastop, closed, comvars>>

\* lines 112, 123: the finally block, discard; then the method returns
CleanupDiscard(T) ==
    /\ At(T, "discard")
    /\ temp_files' = temp_files \ {threads[T].p}
    /\ temp_directories' = temp_directories \ {threads[T].p}
    /\ CleanupReturn(T)
    /\ UNCHANGED <<exists, mtime, now, removals, rmfailed, lastop, closed,
                   comvars>>

\* lines 131-132: current_time = time.time(); list(self._temp_directories)
SweepBegin ==
    /\ At("sweep", "idle")
    /\ SetThread("sweep", [Idle EXCEPT !.pc = "loop", !.kind = "dir",
                                       !.todo = temp_directories, !.time = now])
    /\ UNCHANGED <<temp_files, temp_directories, exists, mtime, now, scopes,
                   removals, rmfailed, lastop, closed, comvars>>

\* the head of the for loops of lines 132 and 135, and line 138
SweepLoop ==
    /\ At("sweep", "loop")
    /\ LET t == threads["sweep"]
       IN  IF t.todo # {}
           THEN LET q == CHOOSE x \in t.todo : \A y \in t.todo : x <= y
                IN  SetThread("sweep", [t EXCEPT !.pc = "os.path.exists", !.p = q,
                                                 !.todo = @ \ {q}])
           ELSE IF t.kind = "dir"
           THEN SetThread("sweep", [t EXCEPT !.kind = "file", !.todo = temp_files])
           ELSE SetThread("sweep", Idle)
    /\ UNCHANGED <<temp_files, temp_directories, exists, mtime, now, scopes,
                   removals, rmfailed, lastop, closed, comvars>>

\* lines 133, 136, left operand: os.path.exists(path)
SweepExists ==
    /\ At("sweep", "os.path.exists")
    /\ SetThread("sweep", [threads["sweep"] EXCEPT !.pc =
                      IF threads["sweep"].p \in exists THEN "getmtime" ELSE "loop"])
    /\ UNCHANGED <<temp_files, temp_directories, exists, mtime, now, scopes,
                   removals, rmfailed, lastop, closed, comvars>>

\* lines 133, 136, right operand: current_time - os.path.getmtime(path) >
\* self._max_resource_age; getmtime raises FileNotFoundError for a path that
\* is gone, and cleanup_all has no handler
SweepGetmtime ==
    /\ At("sweep", "getmtime")
    /\ LET t == threads["sweep"]
       IN  IF t.p \notin exists
           THEN SetThread("sweep", [t EXCEPT !.pc = "raised",
                                            !.err = "FileNotFoundError"])
           ELSE IF t.time - mtime[t.p] > max_resource_age
           THEN SetThread("sweep", [t EXCEPT !.pc = "membership"])
           ELSE SetThread("sweep", [t EXCEPT !.pc = "loop"])
    /\ UNCHANGED <<temp_files, temp_directories, exists, mtime, now, scopes,
                   removals, rmfailed, lastop, closed, comvars>>

\* scopes are entered, time passes, and a sweep runs while scopes exit
NextRace ==
    \/ TempFileEnter /\ UNCHANGED <<pvars, threads>>
    \/ TempDirectoryEnter /\ UNCHANGED <<pvars, threads>>
    \/ Tick /\ UNCHANGED <<pvars, threads>>
    \/ \E p \in Paths : ExitBegin(p) /\ UNCHANGED pvars
    \/ SweepBegin /\ UNCHANGED pvars
    \/ SweepLoop /\ UNCHANGED pvars
    \/ SweepExists /\ UNCHANGED pvars
    \/ SweepGetmtime /\ UNCHANGED pvars
    \/ \E T \in {"sweep", "exit"} : CleanupMembership(T) /\ UNCHANGED pvars
    \/ \E T \in {"sweep", "exit"} : CleanupExists(T) /\ UNCHANGED pvars
    \/ \E T \in {"sweep", "exit"} : CleanupRemove(T) /\ UNCHANGED pvars
    \/ \E T \in {"sweep", "exit"} : CleanupRmtree(T) /\ UNCHANGED pvars
    \/ \E T \in {"sweep", "exit"} : CleanupDiscard(T) /\ UNCHANGED pvars

SpecRace == Init /\ [][NextRace]_vars

\* ================================================================ automation
\* ---------------------------------------------------------------- traces
\* what one automation scope did, as its caller and the engine see it:
\* attempts: DispatchEx calls; sleeps: the time.sleep arguments in order;
\* engines: instances created; yields: the engines handed to the with block;
\* quits: the engines Quit() was called on, in order; quitlog: the "Failed to
\* quit" warnings logged; registered: the engines added to _com_objects and
\* _resource_timestamps; objs, stamps: what the scope leaves in them; error:
\* what the with statement raises to the caller
Err(kind, attempt) == [kind |-> kind, attempt |-> attempt]

ComTrace0 == [attempts |-> 0, sleeps |-> <<>>, coinit |-> 0, couninit |-> 0,
              engines |-> 0, yields |-> <<>>, quits |-> <<>>, quitlog |-> 0,
              registered |-> {}, objs |-> {}, stamps |-> {},
              error |-> Err("none", 0)]

\* the outcomes of DispatchEx on the successive attempts
ConnOutcomes == [0..(max_retries - 1) -> {"ok", "fail"}]

\* lines 53-61: Quit() on obj when obj is set (quit = "raise": Quit raises,
\* which is logged), discard from _com_objects, CoUninitialize
ComFinally(t, obj, quit) ==
    [t EXCEPT !.quits = IF obj # 0 THEN Append(@, obj) ELSE @,
              !.quitlog = IF obj # 0 /\ quit = "raise" THEN @ + 1 ELSE @,
              !.objs = @ \ {obj},
              !.couninit = @ + 1]

\* lines 36-61, from iteration `attempt` on; obj: the local variable (0: None);
\* body: how the with block ends; finalised: whether the generator has been
\* closed by the time the with statement raises "generator didn't stop"
RECURSIVE ComAttempt(_, _, _, _, _, _, _)
ComAttempt(attempt, obj, t, conn, body, finalised, quit) ==
    IF attempt = max_retries THEN t
    ELSE
    LET t1 == [t EXCEPT !.coinit = @ + 1, !.attempts = @ + 1]
        \* lines 48-52 followed by the finally block
        Except(tt, o, err) ==
            IF attempt = max_retries - 1
            THEN [ComFinally(tt, o, quit) EXCEPT !.error = err]
            ELSE ComAttempt(attempt + 1, o,
                            ComFinally([tt EXCEPT !.sleeps =
                                Append(@, retry_delay * (2 ^ attempt))], o, quit),
                            conn, body, finalised, quit)
    IN  IF conn[attempt] = "fail"
        THEN Except(t1, obj, Err("connect", attempt))
        ELSE LET e  == t1.engines + 1
                 t2 == [t1 EXCEPT !.engines = e,
                                  !.registered = @ \cup {e},
                                  !.objs = @ \cup {e},
                                  !.stamps = @ \cup {e},
                                  !.yields = Append(@, e)]
             IN  IF t1.yields # <<>>
                 THEN \* a second yield: contextlib raises RuntimeError
                      IF finalised
                      THEN [ComFinally(t2, e, quit) EXCEPT !.error = Err("RuntimeError", attempt)]
                      ELSE [t2 EXCEPT !.error = Err("RuntimeError", attempt)]
                 ELSE IF body = "return"
                 THEN ComFinally(t2, e, quit)             \* break
                 ELSE Except(t2, e, Err("body", attempt))

\* variant of manage_com_object for a manager that has the lock attribute
manage_com_object_WithLock(lock, conn, body, finalised, quit) ==
    ComAttempt(0, 0, ComTrace0, conn, body, finalised, quit)

\* manage_com_object(com_class): line 35 reads self._temp_files_lock before
\* the retry loop is entered
manage_com_object(lock, conn, body, finalised, quit) ==
    IF ~lock THEN [ComTrace0 EXCEPT !.error = Err("AttributeError", 0)]
    ELSE ComAttempt(0, 0, ComTrace0, conn, body, finalised, quit)

\* variant of get_word_instance that quits the engine after the yield only
get_word_instance_QuitOnReturn(conn, body) ==
    LET t1 == [ComTrace0 EXCEPT !.coinit = 1, !.attempts = 1]
    IN  IF conn = "fail"
        THEN [t1 EXCEPT !.couninit = 1, !.error = Err("WordRequired", 0)]
        ELSE LET t2 == [t1 EXCEPT !.engines = 1, !.yields = <<1>>]
             IN  IF body = "return"
                 THEN [t2 EXCEPT !.quits = <<1>>, !.couninit = 1]
                 ELSE [t2 EXCEPT !.couninit = 1, !.error = Err("WordRequired", 0)]

\* PDFOperations.get_word_instance: CoInitialize, DispatchEx, yield; any
\* exception is replaced by a generic one; finally Quit (errors ignored) and
\* CoUninitialize. It does not use the ledger.
get_word_instance(conn, body) ==
    LET t1 == [ComTrace0 EXCEPT !.coinit = 1, !.attempts = 1]
    IN  IF conn = "fail"
        THEN [t1 EXCEPT !.couninit = 1, !.error = Err("WordRequired", 0)]
        ELSE LET t2 == [t1 EXCEPT !.engines = 1, !.yields = <<1>>,
                                  !.quits = <<1>>, !.couninit = 1]
             IN  IF body = "return" THEN t2
                 ELSE [t2 EXCEPT !.error = Err("WordRequired", 0)]

\* ---------------------------------------------------------------- actions
\* with rm.manage_com_object(cls) as obj: <block>; the whole with statement
ManageComObject(conn, body, finalised, quit) ==
    /\ Len(comlog) < MaxAcquisitions
    /\ LET n == Len(comlog) + 1
           t == manage_com_object(temp_files_lock, conn, body, finalised, quit)
       IN  /\ comlog' = Append(comlog, [scope |-> "manage_com_object",
                                        conn |-> conn, body |-> body,
                                        quit |-> quit, trace |-> t])
           /\ com_objects' = com_objects \cup {<<n, e>> : e \in t.objs}
           /\ resource_timestamps' =
                 resource_timestamps \cup {<<<<n, e>>, now>> : e \in t.stamps}
    /\ UNCHANGED <<temp_files, temp_directories, exists, mtime, now, scopes,
                   removals, rmfailed, temp_files_lock, lastop, closed>>

\* with self.get_word_instance() as word: <block>; the whole with statement
GetWordInstance(conn, body) ==
    /\ Len(comlog) < MaxAcquisitions
    /\ comlog' = Append(comlog, [scope |-> "get_word_instance",
                                 conn |-> [a \in 0..(max_retries - 1) |-> conn],
                                 body |-> body,
                                 quit |-> "return",
                                 trace |-> get_word_instance(conn, body)])
    /\ UNCHANGED <<temp_files, temp_directories, exists, mtime, now, scopes,
                   removals, rmfailed, temp_files_lock, com_objects,
                   resource_timestamps, lastop, closed>>

NextCom ==
    \/ \E conn \in ConnOutcomes, body \in {"return", "raise"},
          finalised \in BOOLEAN, quit \in {"return", "raise"} :
          ManageComObject(conn, body, finalised, quit) /\ UNCHANGED <<pvars, threads>>
    \/ \E conn \in {"ok", "fail"}, body \in {"return", "raise"} :
          GetWordInstance(conn, body) /\ UNCHANGED <<pvars, threads>>

SpecCom == Init /\ [][NextCom]_vars

\* ================================================================ claims
\* ---------------------------------------------------------------- notions
Range(q)      == {q[k] : k \in 1..Len(q)}
Dispatched(i) == i \in Range(dispatched)
\* dequeued by run(), neither completed nor failed yet
InFlight(i)   == ltask = i /\ lpc \in {"submit", "result"}
Unresolved(i) == InQueue(i) \/ InFlight(i)
\* the call entered the queue (put may still have raised)
Enqueued(i)   == calls[i].outcome # "rejected"
EventsOf(i)   == {k \in 1..Len(events) : events[k].id = i}
CompletedEv(i) == {k \in EventsOf(i) : events[k].ev = "task_completed"}
FailedEv(i)    == {k \in EventsOf(i) : events[k].ev = "task_failed"}
\* the step is an add_task call; n is the id it gets
IsAddStep     == Len(calls') = Len(calls) + 1
NewId         == Len(calls) + 1
\* the step is a successful dequeue by run()
IsDequeueStep == Len(dispatched') = Len(dispatched) + 1
Dequeued      == dispatched'[Len(dispatched')]

\* ---------------------------------------------------------------- C1
\* C1: in every reachable state, for each target path at most one task is
\* queued or in flight.
C1_OneUnresolvedPerPath ==
    \A i, j \in Ids :
        (i # j /\ HasPath(TaskOf(i)) /\ PathOf(i) = PathOf(j)
              /\ Unresolved(i) /\ Unresolved(j)) => FALSE

\* ---------------------------------------------------------------- C2
\* C2: add_task for a path p with a file at p, called while an earlier task
\* for p that was also added with a file at p is still queued or in flight,
\* enqueues nothing and raises nothing.
C2_SecondEnqueueIsNoOp ==
    [][ (IsAddStep /\ calls'[NewId].isfile
           /\ \E i \in Ids : /\ calls[i].isfile
                             /\ PathOf(i) = calls'[NewId].task.args
                             /\ Unresolved(i))
        => (calls'[NewId].outcome = "rejected" /\ queue' = queue) ]_vars

\* ---------------------------------------------------------------- C3
\* C3: a priority-1 task is dispatched before a priority-5 task: when run()
\* dequeues a priority-5 task, every priority-1 task add_task had accepted by
\* then has been dispatched already (or was dropped by stop()).
C3_PriorityOneFirst ==
    [][ (IsDequeueStep /\ calls[Dequeued].priority = 5)
        => \A i \in Ids : (calls[i].priority = 1 /\ calls[i].outcome = "accepted")
                          => (Dispatched(i) \/ i \in Range(dropped)) ]_vars

\* ---------------------------------------------------------------- C4
\* C4: two tasks added with the same priority are both accepted without error
\* and are dispatched in the order in which add_task was called.
C4_EqualPriorityFifo ==
    \A i, j \in Ids :
        (i < j /\ calls[i].priority = calls[j].priority
               /\ Enqueued(i) /\ Enqueued(j))
        => /\ calls[i].outcome = "accepted"
           /\ calls[j].outcome = "accepted"
           /\ ~(Dispatched(j) /\ InQueue(i))

\* ---------------------------------------------------------------- C5
\* notions of C5: the events about path p, and "the last of them is a failure
\* of the task itself"
PathEvents(p) == {k \in 1..Len(events) : PathOf(events[k].id) = p}
BodyFailure(e) == e.ev = "task_failed" /\ e.payload \in {"body error", "callback error"}
LastFailed(p) ==
    /\ PathEvents(p) # {}
    /\ \E k \in PathEvents(p) :
          /\ \A m \in PathEvents(p) : m <= k
          /\ BodyFailure(events[k])
AllResolved(p) ==
    \A i \in Ids : (PathOf(i) = p /\ Enqueued(i)) => (EventsOf(i) # {} /\ ~Unresolved(i))

C6_DrainOnStop ==
    [][ /\ (spc # "idle" /\ dispatched = <<>>)
           => (dispatched' = <<>> /\ started' = <<>> /\ events' = <<>>)
        /\ (spc' = "returned" /\ dispatched' = <<>>)
           => \A i \in 1..Len(calls') :
                 calls'[i].outcome # "rejected" => i \in Range(dropped') ]_vars

C8_ExactlyOneEvent ==
    \A i \in Ids :
        /\ (Dispatched(i) /\ ~InFlight(i)) => Cardinality(EventsOf(i)) = 1
        /\ (InFlight(i) \/ ~Dispatched(i)) => EventsOf(i) = {}

\* ---------------------------------------------------------------- C9
\* C9: when the body of a dispatched task returns r, the callback (when
\* present) is invoked with r, task_completed(type, r) is emitted, the dedup
\* tracking is left alone, and no task_failed is emitted for that task.
C9_SuccessPath ==
    [][ /\ (lpc = "result" /\ fut = "ok" /\ lpc' = "while")
           => /\ (TaskOf(ltask).callback # NoCallback
                    => <<ltask, ResultOf(ltask)>> \in cbcalls')
              /\ events' = Append(events, Completed(ltask))
              /\ processed' = processed
        /\ \A k, m \in 1..Len(events') :
              (events'[k].ev = "task_completed" /\ events'[m].id = events'[k].id)
              => events'[m].ev = "task_completed" ]_vars

\* ---------------------------------------------------------------- C10
\* number of outcomes recorded for task i: events and "dropped" log lines
Outcomes(i) ==
    Cardinality(EventsOf(i)) + Cardinality({k \in 1..Len(dropped) : dropped[k] = i})

\* C10: a task accepted by add_task is queued, in flight, or has exactly one
\* outcome: completed, failed, or logged as dropped by stop().
C10_NoSilentLoss ==
    \A i \in Ids :
        calls[i].outcome = "accepted"
        => IF Unresolved(i) THEN Outcomes(i) = 0 ELSE Outcomes(i) = 1

\* ---------------------------------------------------------------- notions (ledger)
Tracked(p)   == p \in temp_files \cup temp_directories
TrackedN(p)  == p \in temp_files' \cup temp_directories'
\* the step is the exit of the scope of path p
IsExitStep(p) ==
    /\ p \in 1..Len(scopes)
    /\ scopes[p].state = "open"
    /\ scopes'[p].state = "exited"
\* the caller of the with statement sees the exception of its block, and only that
ExceptionReachesCaller(p) ==
    /\ lastop'.op = "exit" /\ lastop'.arg = p
    /\ lastop'.caller = (IF lastop'.body = "raise" THEN "exception" ELSE "normal")

IsSweepStep == lastop'.op = "cleanup_all"
\* time since the allocation of path p
AgeOf(p) == now - scopes[p].created
\* nothing about path p changes in the step
Untouched(p) ==
    /\ TrackedN(p) = Tracked(p)
    /\ (p \in exists') = (p \in exists)
    /\ removals'[p] = removals[p]

\* C12: after cleanup_all no record created more than max_resource_age ago is
\* still tracked, and it is gone from disk unless its removal was refused; no
\* automation handle that old is left; younger records are left untouched.
C12_SweepReclaimsAged ==
    [][ IsSweepStep
        => /\ \A p \in 1..Len(scopes) :
                 IF AgeOf(p) > max_resource_age
                 THEN (Tracked(p) => (~TrackedN(p)
                                      /\ (p \in exists' => p \in rmfailed')))
                 ELSE Untouched(p)
           /\ \A h \in com_objects' :
                 \A ts \in resource_timestamps' :
                     ts[1] = h => ~(now - ts[2] > max_resource_age) ]_vars

\* ---------------------------------------------------------------- C13
\* C13: after closeEvent has run, the ledger tracks no temp file, no temp
\* directory and no automation handle, whatever their age.
C13_ShutdownReclaimsAll ==
    closed => /\ temp_files = {}
              /\ temp_directories = {}
              /\ com_objects = {}

\* ---------------------------------------------------------------- C14
\* the cleanup methods changed nothing: ledger, disk, removal attempts
LedgerUnchanged ==
    /\ temp_files' = temp_files
    /\ temp_directories' = temp_directories
    /\ exists' = exists
    /\ removals' = removals
    /\ rmfailed' = rmfailed

\* C14: a cleanup_all that directly follows a cleanup_all attempts no removal
\* and leaves ledger and disk exactly as the first call left them.
C14_SweepIdempotent ==
    [][ (IsSweepStep /\ lastop.op = "cleanup_all") => LedgerUnchanged ]_vars

\* two sweeps in a row, the first of which reclaimed the file of an open scope
\* and was refused the removal of another
C14_Witness ==
    /\ lastop = Op("cleanup_all", 2)
    /\ \E p, q \in 1..Len(scopes) :
          /\ scopes[p].state = "open" /\ scopes[q].state = "open"
          /\ ~Tracked(p) /\ removals[p] = 1 /\ p \notin exists
          /\ ~Tracked(q) /\ removals[q] = 1 /\ q \in rmfailed

\* ---------------------------------------------------------------- C15
\* the step is a direct call of cleanup_file(p) or cleanup_directory(p)
IsCleanupCallStep(p) ==
    /\ lastop'.op \in {"cleanup_file", "cleanup_directory"}
    /\ lastop'.arg = p

\* C15: cleanup_file / cleanup_directory called for a path that was released
\* before attempts no removal and changes neither the ledger nor the disk.
C15_DoubleReleaseNoOp ==
    [][ \A p \in 1..Len(scopes) :
          (IsCleanupCallStep(p) /\ ~Tracked(p)) => LedgerUnchanged ]_vars

\* cleanup_file was just called for the path of a scope that had exited, whose
\* removal at the exit was refused: the file is on disk, one attempt was made
C15_Witness ==
    \E p \in 1..Len(scopes) :
        /\ lastop = Op("cleanup_file", p)
        /\ scopes[p].state = "exited"
        /\ scopes[p].kind = "file"
        /\ p \in exists
        /\ removals[p] = 1

\* ---------------------------------------------------------------- notions (automation)
\* the scopes of manage_com_object run so far
Acquisitions == {k \in 1..Len(comlog) : comlog[k].scope = "manage_com_object"}
\* the connection fails on the first f attempts and succeeds on the next
FailsThenConnects(conn, f) ==
    /\ \A a \in 0..(f - 1) : conn[a] = "fail"
    /\ conn[f] = "ok"
FailsAlways(conn) == \A a \in 0..(max_retries - 1) : conn[a] = "fail"
\* number of Quit() calls on engine e
QuitCount(t, e) == Cardinality({i \in 1..Len(t.quits) : t.quits[i] = e})

\* ---------------------------------------------------------------- C16
\* C16: an acquisition whose connection fails on fewer than max_retries
\* attempts and then succeeds yields an engine to the caller's block.
C16_RetryThenSucceed ==
    \A k \in Acquisitions :
        (\E f \in 0..(max_retries - 1) : FailsThenConnects(comlog[k].conn, f))
        => comlog[k].trace.yields # <<>>

\* ---------------------------------------------------------------- C17
\* C17: an acquisition whose connection fails on every attempt makes exactly
\* max_retries attempts, sleeps retry_delay * 2^attempt after each attempt but
\* the last (1 s, 2 s), and raises the error of the last attempt.
C17_RetryThenFail ==
    \A k \in Acquisitions :
        FailsAlways(comlog[k].conn)
        => /\ comlog[k].trace.attempts = max_retries
           /\ comlog[k].trace.sleeps =
                 [i \in 1..(max_retries - 1) |-> retry_delay * (2 ^ (i - 1))]
           /\ comlog[k].trace.error = Err("connect", max_retries - 1)

IsGetStep == lpc = "get" /\ queue # <<>> /\ Len(queue') = Len(queue) - 1
\* the ids the step took out of the queue
Removed == Range(queue) \ Range(queue')
HasMinPriority(i) == \A k \in Range(queue) : calls[i].priority <= calls[k].priority

\* C19: every get() of run() takes out of the queue a task whose priority
\* number is the minimum among the tasks queued at that moment.
C19_DequeueTakesMinimum ==
    [][ IsGetStep => \A i \in Removed : HasMinPriority(i) ]_vars

\* ---------------------------------------------------------------- C20
\* the body of some dispatched task has raised and run() has reported it
SomeBodyFailed == \E k \in 1..Len(events) : events[k].payload = "body error"

\* C20: after a task body has failed and while stop() has not been called,
\* run() does not end, and a queued task leaves the queue only by being
\* dequeued and dispatched by run().
C20_FailureKeepsLoopAlive ==
    [][ (SomeBodyFailed /\ spc = "idle")
        => /\ lpc' # "done"
           /\ \A i \in Ids :
                 (InQueue(i) /\ i \notin Range(queue'))
                 => (IsDequeueStep /\ Dequeued = i) ]_vars

\* ---------------------------------------------------------------- C21
\* the bodies the pool has started whose event run() has not emitted yet
StartedUnreported == {i \in Range(started) : EventsOf(i) = {}}
\* position of task i in the order of dispatch
DispatchPos(i) == CHOOSE k \in 1..Len(dispatched) : dispatched[k] = i

\* C21: at most one submitted body is executing at any moment; when run() has
\* dequeued a task, every task dequeued before it has its completion or
\* failure event; and the events are emitted in the order of dispatch.
C21_OneBodyAtATime ==
    /\ Cardinality(StartedUnreported) <= 1
    /\ (fut = "running" => StartedUnreported = {ltask})
    /\ \A k \in 1..(Len(dispatched) - 1) : EventsOf(dispatched[k]) # {}
    /\ \A k, m \in 1..Len(events) :
          (k < m /\ Dispatched(events[k].id) /\ Dispatched(events[m].id))
          => DispatchPos(events[k].id) <= DispatchPos(events[m].id)

\* three tasks were dispatched one after the other; the first two have run
\* and have their events, in the order of dispatch, and the body of the third
\* is executing
C21_Witness ==
    /\ Len(dispatched) = 3
    /\ Len(events) = 2
    /\ events[1].id = dispatched[1] /\ events[2].id = dispatched[2]
    /\ Range(started) = Range(dispatched)
    /\ fut = "running"

\* ---------------------------------------------------------------- C22
\* the last event emitted for task i (i has events)
LastEventOf(ev, i) ==
    LET ks == {k \in 1..Len(ev) : ev[k].id = i}
    IN  ev[CHOOSE k \in ks : \A m \in ks : m <= k]
\* the state of task i in the per-task state machine, read off the state
\* <<queue, dispatched, events, dropped>>
TaskState(q, d, ev, dr, i) ==
    IF \E k \in 1..Len(ev) : ev[k].id = i
    THEN (IF LastEventOf(ev, i).ev = "task_completed" THEN "Completed" ELSE "Failed")
    ELSE IF i \in Range(d) THEN "Dispatched"
    ELSE IF i \in Range(dr) THEN "Dropped"
    ELSE IF i \in Range(q) THEN "Queued"
    ELSE "Lost"
TaskMoves == {<<"Queued", "Dispatched">>, <<"Dispatched", "Completed">>,
              <<"Dispatched", "Failed">>, <<"Queued", "Dropped">>}
\* number of times the pool started the body of task i
StartCount(i) == Cardinality({k \in 1..Len(started) : started[k] = i})
\* body executed at most once, never queued again, never dispatched and dropped
OncePerTask ==
    \A i \in Ids :
        /\ StartCount(i) <= 1
        /\ ~(Dispatched(i) /\ InQueue(i))
        /\ ~(Dispatched(i) /\ i \in Range(dropped))

\* C22: every accepted task only moves Queued -> Dispatched -> Completed or
\* Failed (or Queued -> Dropped by stop()); its body is executed at most once,
\* it is never queued again after its dispatch, and it is never both
\* dispatched and logged as dropped.
C22_TaskStateMachine ==
    [][ /\ OncePerTask'
        /\ \A i \in Ids :
              calls[i].outcome = "accepted"
              => LET s == TaskState(queue, dispatched, events, dropped, i)
                     t == TaskState(queue', dispatched', events', dropped', i)
                 IN  s = t \/ <<s, t>> \in TaskMoves ]_vars

\* ---------------------------------------------------------------- C23
\* the call has returned
Returned(i) == calls[i].outcome \in {"accepted", "raised", "rejected"}
\* the calls for path p that found a file there, and those whose task is queued
CallsFor(p) == {i \in Ids : PathOf(i) = p /\ calls[i].isfile}
QueuedFor(p) == {i \in CallsFor(p) : InQueue(i)}

\* C23: the membership check and the insertion of add_task act as one step:
\* of the calls made concurrently for one path, each finding a file there,
\* never more than one gets its task into the queue, and once they have all
\* returned exactly one has.
C23_CheckAndInsertAtomic ==
    \A p \in {"f.pdf"} :
        (\A i \in Ids : PathOf(i) = p => calls[i].isfile)
        => /\ Cardinality(QueuedFor(p)) <= 1
           /\ (CallsFor(p) # {} /\ \A i \in CallsFor(p) : Returned(i))
              => Cardinality(QueuedFor(p)) = 1

\* ---------------------------------------------------------------- C24
\* the scope of path p has exited and no sweep is under way
Settled(p) ==
    /\ scopes[p].state = "exited"
    /\ threads["sweep"].pc \in {"idle", "raised"}

\* C24: when cleanup_all runs concurrently with the exit of a scope that
\* holds a tracked temp file or directory, neither of the two raises an
\* error, and once both have finished the path is gone from disk and is no
\* longer tracked.
C24_SweepExitRace ==
    /\ threads["sweep"].err = "none"
    /\ threads["exit"].err = "none"
    /\ \A p \in 1..Len(scopes) :
          Settled(p) => (p \notin exists /\ ~Tracked(p))

\* ---------------------------------------------------------------- C25
\* the engine accepts the connection of acquisition k at some attempt
Connects(k) == \E f \in 0..(max_retries - 1) : FailsThenConnects(comlog[k].conn, f)
\* the attempt at which it does
ConnectsAt(k) == CHOOSE f \in 0..(max_retries - 1) : FailsThenConnects(comlog[k].conn, f)

\* C25: in an acquisition whose connection succeeds, one engine instance is
\* created and no connection attempt follows the successful one; an
\* exception raised by the caller's block reaches the caller as that error.
C25_WorkErrorNotRetried ==
    \A k \in Acquisitions :
        Connects(k)
        => LET t == comlog[k].trace
           IN  /\ t.engines = 1
               /\ t.attempts = ConnectsAt(k) + 1
               /\ comlog[k].body = "raise" => t.error = Err("body", ConnectsAt(k))

\* ---------------------------------------------------------------- C26
\* C26: in an acquisition that obtained an engine whose Quit() raises, the
\* error of Quit is logged, the handle is no longer in the ledger, the
\* automation environment is torn down as often as it was set up, and the
\* caller sees the outcome of its own block: no error when the block
\* returned, the block's error when it raised.
C26_QuitErrorSwallowed ==
    \A k \in Acquisitions :
        (Connects(k) /\ comlog[k].quit = "raise")
        => LET t == comlog[k].trace
           IN  /\ t.quitlog >= 1
               /\ t.objs = {}
               /\ t.coinit >= 1 /\ t.couninit = t.coinit
               /\ t.error.kind = (IF comlog[k].body = "raise" THEN "body" ELSE "none")

\* ---------------------------------------------------------------- C27
\* C27: an acquisition whose connection succeeds registers the engine handle
\* and its timestamp, and leaves neither in the ledger when its scope has
\* exited; with no scope open, _com_objects and _resource_timestamps are empty.
C27_LedgerEmptyAfterScope ==
    /\ \A k \in Acquisitions :
          Connects(k)
          => LET t == comlog[k].trace
             IN  /\ t.registered # {}
                 /\ t.objs = {}
                 /\ t.stamps = {}
    /\ com_objects = {}
    /\ resource_timestamps = {}

\* ---------------------------------------------------------------- C28
\* the ledger after the step
LedgerN == [files |-> temp_files', dirs |-> temp_directories', exists |-> exists',
            removals |-> removals', rmfailed |-> rmfailed']
\* the paths whose removal the step attempted and was refused
RefusedNow == rmfailed' \ rmfailed
\* path q fares in ledger L as in ledger M
SameFate(L, M, q) ==
    /\ (q \in L.files) = (q \in M.files)
    /\ (q \in L.dirs) = (q \in M.dirs)
    /\ (q \in L.exists) = (q \in M.exists)
    /\ L.removals[q] = M.removals[q]
\* a refused removal raises nothing: the exit hands the caller the outcome of
\* its block, and the sweep treats every other record as it would have
\* without the refusal
RefusalSwallowed ==
    /\ \A p \in Paths : IsExitStep(p) => ExceptionReachesCaller(p)
    /\ IsSweepStep
       => \A q \in Paths \ RefusedNow :
             SameFate(LedgerN, cleanup_all(Ledger, now, {}), q)

\* C28: a removal that is refused during a sweep or at the exit of a scope is
\* logged and swallowed: the exit hands the caller the outcome of its block,
\* and the sweep goes on to reclaim the remaining records as it would have
\* without the refusal.
C28_ReclaimFailureSwallowed ==
    [][ /\ RefusedNow \subseteq WarningsLogged(LedgerN)
        /\ RefusalSwallowed ]_vars

CompletedAndKept(p) ==
    \E i \in Ids :
        /\ calls[i].isfile /\ PathOf(i) = p
        /\ \E k \in CompletedEv(i) :
              \A m \in PathEvents(p) : m > k => ~BodyFailure(events[m])
\* stop() has not cleared the tracking yet
NotCleared == spc \notin {"join", "returned"}
\* the step takes paths out of _processed_files
Shrinks == processed \ processed' # {}
\* the step is the failure of the dispatched task, reported by run()
IsFailureStep ==
    /\ Len(events') = Len(events) + 1
    /\ BodyFailure(events'[Len(events')])

\* C30: after a task for an existing file path p has completed, p stays in
\* the tracking set: every later add_task for p with the file there is
\* rejected and changes nothing, until a task for p fails or stop() clears
\* the tracking; and the tracking set shrinks only when a task fails (by the
\* path of that task) or when stop() clears it.
C30_CompletedStaysTracked ==
    [][ /\ (IsAddStep /\ calls'[NewId].isfile /\ NotCleared
              /\ CompletedAndKept(calls'[NewId].task.args))
           => /\ calls'[NewId].outcome = "rejected"
              /\ queue' = queue
              /\ processed' = processed
        /\ Shrinks
           => \/ spc = "clear" /\ spc' = "join"
              \/ IsFailureStep /\ processed \ processed' = {PathOf(ltask)} ]_vars

====
